---- MODULE Spec2Model ----
(***************************************************************************)
(* Model of threads_to_sheets.py: the metrics enricher                     *)
(* (refine_posts_stats) and the row reconciler (update_sheet) working on   *)
(* one worksheet.  The worksheet is a sequence of rows; row 1 is position  *)
(* 1.  A post is a record whose optional keys (id, permalink, text and the *)
(* six metric names) may be absent from its DOMAIN, as in the Python dict. *)
(***************************************************************************)
EXTENDS Integers, Sequences, FiniteSets, TLC

VARIABLES sheet, stats, pc, last

vars == <<sheet, stats, pc, last>>

----------------------------------------------------------------------------
(* Bounds of the model *)

\* largest number of posts one fetch returns
MaxPosts == 2
\* largest number of rows the worksheet may hold (header rows included)
MaxSheetRows == 3

(* Program constants *)

\* "%Y. %m. %d %H:%M" keeps minutes and drops the seconds
SecondsPerMinute == 60
\* ZoneInfo("Asia/Seoul") is UTC+09:00
KSTOffsetMinutes == 540

----------------------------------------------------------------------------
(* Values *)

\* A cell that holds a number, and a cell that holds a text label.  The two
\* kinds are records over different fields so that they can be compared.
Num(k) == [n |-> k]
Label(s) == [s |-> s]

\* dict.get(key, default)
Get(d, key, default) == IF key \in DOMAIN d THEN d[key] ELSE default

\* the metric names requested from the insights endpoint
metrics == <<"views", "likes", "replies", "reposts", "quotes", "shares">>

\* the header row written by update_sheet
header ==
    [Idx |-> Label("Idx"), Date |-> Label("Date"), Text |-> "Text",
     Topic |-> "Topic", Views |-> Label("Views"), Likes |-> Label("Likes"),
     Replies |-> Label("Replies"),
     RepostsQuotes |-> Label("Reposts/Quotes"),
     Shares |-> Label("Shares"), Permalink |-> "Permalink"]

\* the columns E to I of a row
MetricCols == {"Views", "Likes", "Replies", "RepostsQuotes", "Shares"}
\* the other columns
FrameCols == {"Idx", "Date", "Text", "Topic", "Permalink"}

----------------------------------------------------------------------------
(* Inputs *)

\* The posts the feed may return.  A timestamp is the second of the UTC day;
\* every timestamp carries the offset +0000, so the order of the ISO strings
\* that sorted() compares is the order of the instants.  The keys id and
\* permalink are optional; text bodies are given as the list of their lines.
RawPosts ==
    { [id |-> "m1", permalink |-> "p1", timestamp |-> 60, text |-> <<"a", "b">>],
      [id |-> "m2", permalink |-> "p2", timestamp |-> 120, text |-> <<"c">>],
      [permalink |-> "p2", timestamp |-> 120, text |-> <<"c">>],
      [id |-> "m3", timestamp |-> 60] }

\* bodies of the insights response: its "data" list
Entry(name, v) == [name |-> name, values |-> <<[value |-> v]>>]
InsightsData ==
    { <<>>,
      <<Entry("views", 7), Entry("likes", 1),
        [name |-> "replies", values |-> <<>>],
        Entry("reposts", 1), Entry("quotes", 2), Entry("shares", 0)>> }

----------------------------------------------------------------------------
(* refine_posts_stats *)

\* the loop over the entries of one insights response: post[name] = value
RECURSIVE MergeEntries(_, _)
MergeEntries(post, data) ==
    IF data = <<>> THEN post
    ELSE LET entry == Head(data)
             values == Get(entry, "values", <<>>)
             v == IF values # <<>> THEN Get(values[1], "value", 0) ELSE 0
             name == entry.name
         IN  MergeEntries((name :> v) @@ post, Tail(data))

\* one iteration of the loop over the posts: a post without id is skipped
RefinePost(post, data) ==
    LET media_id == Get(post, "id", "")
    IN  IF media_id = "" THEN post ELSE MergeEntries(post, data)

refine_posts_stats(posts, responses) ==
    [i \in 1..Len(posts) |-> RefinePost(posts[i], responses[i])]

----------------------------------------------------------------------------
(* update_sheet *)

\* sheet.get_all_records(): the rows below row 1, keyed by the cells of row 1
get_all_records(sh) ==
    IF Len(sh) <= 1 THEN <<>> ELSE SubSeq(sh, 2, Len(sh))

\* existing_map with the header row not counted in the position
existing_map_NoHeaderOffset(records) ==
    LET keys == {records[i].Permalink : i \in 1..Len(records)} \ {""}
        Last(k) == CHOOSE i \in 1..Len(records) :
                      /\ records[i].Permalink = k
                      /\ \A j \in 1..Len(records) :
                            records[j].Permalink = k => j <= i
    IN  [k \in keys |-> (Last(k) - 1) + 1]

\* existing_map keeping the first record of a Permalink instead of the last
existing_map_FirstWins(records) ==
    LET keys == {records[i].Permalink : i \in 1..Len(records)} \ {""}
        First(k) == CHOOSE i \in 1..Len(records) :
                      /\ records[i].Permalink = k
                      /\ \A j \in 1..Len(records) :
                            records[j].Permalink = k => i <= j
    IN  [k \in keys |-> (First(k) - 1) + 2]

\* the dict comprehension: a later record with the same Permalink replaces
\* the entry of an earlier one; records with an empty Permalink are left out
existing_map(records) ==
    LET keys == {records[i].Permalink : i \in 1..Len(records)} \ {""}
        Last(k) == CHOOSE i \in 1..Len(records) :
                      /\ records[i].Permalink = k
                      /\ \A j \in 1..Len(records) :
                            records[j].Permalink = k => j <= i
    IN  [k \in keys |-> (Last(k) - 1) + 2]

\* len(records) + 1, or 1 when there are no records
start_idx(records) == IF records = <<>> THEN 1 ELSE Len(records) + 1

\* the loop running over stats as fetched, without sorted()
SortByTimestamp_Unsorted(posts) == posts

\* sorted(stats, key=timestamp): a stable sort, ties keep the input order
RECURSIVE InsertSorted(_, _)
InsertSorted(post, sorted) ==
    IF sorted = <<>> THEN <<post>>
    ELSE IF post.timestamp < Head(sorted).timestamp
         THEN <<post>> \o sorted
         ELSE <<Head(sorted)>> \o InsertSorted(post, Tail(sorted))

RECURSIVE SortByTimestamp(_)
SortByTimestamp(posts) ==
    IF posts = <<>> THEN <<>>
    ELSE InsertSorted(posts[Len(posts)],
                      SortByTimestamp(SubSeq(posts, 1, Len(posts) - 1)))

\* datetime.fromisoformat(...).astimezone(KST).strftime("%Y. %m. %d %H:%M"):
\* the minute of the instant, on the Seoul clock
ts_str(post) ==
    [kst |-> (post.timestamp \div SecondsPerMinute) + KSTOffsetMinutes]

\* post.get("text", "").split('\n')[0] if post.get("text") else ""
FirstLine(post) ==
    LET text == Get(post, "text", <<"">>)
    IN  IF text = <<"">> THEN "" ELSE text[1]

\* MetricValues with post.get("views") lacking its default: a blank cell
MetricValues_NoDefault(post) ==
    [Views |-> IF "views" \in DOMAIN post THEN Num(post.views) ELSE Label(""),
     Likes |-> Num(Get(post, "likes", 0)),
     Replies |-> Num(Get(post, "replies", 0)),
     RepostsQuotes |-> Num(Get(post, "reposts", 0) + Get(post, "quotes", 0)),
     Shares |-> Num(Get(post, "shares", 0))]

\* the list written to the columns E to I, for an update and for a new row
MetricValues(post) ==
    [Views |-> Num(Get(post, "views", 0)),
     Likes |-> Num(Get(post, "likes", 0)),
     Replies |-> Num(Get(post, "replies", 0)),
     RepostsQuotes |-> Num(Get(post, "reposts", 0) + Get(post, "quotes", 0)),
     Shares |-> Num(Get(post, "shares", 0))]

\* the list appended to new_rows
NewRow(post, idx) ==
    [Idx |-> Num(idx), Date |-> ts_str(post), Text |-> FirstLine(post),
     Topic |-> "", Permalink |-> Get(post, "permalink", "")]
    @@ MetricValues(post)

\* The loop over the sorted posts, from the k-th post on, with the running
\* index idx.  It yields one write per post, in loop order; "post" records
\* which post (by its place in the sorted list) the write is for.
RECURSIVE ReconcileLoop(_, _, _, _)
ReconcileLoop(sorted, k, emap, idx) ==
    IF k > Len(sorted) THEN <<>>
    ELSE LET post == sorted[k]
             permalink == Get(post, "permalink", "")
         IN  IF permalink \in DOMAIN emap
             THEN <<[op |-> "update", row |-> emap[permalink],
                     values |-> MetricValues(post), post |-> k]>>
                  \o ReconcileLoop(sorted, k + 1, emap, idx)
             ELSE <<[op |-> "append_row", values |-> NewRow(post, idx),
                     post |-> k]>>
                  \o ReconcileLoop(sorted, k + 1, emap, idx + 1)

IsUpdate(w) == w.op = "update"
IsAppend(w) == w.op = "append_row" /\ "post" \in DOMAIN w

\* The writes one run of update_sheet sends to the worksheet sh, in the order
\* it sends them: the header when there are no records, each update as the
\* loop meets it, and the new rows after the loop.
UpdateSheetWrites(posts, sh) ==
    LET records == get_all_records(sh)
        head == IF records = <<>>
                THEN <<[op |-> "append_row", values |-> header]>> ELSE <<>>
        emap == IF records = <<>> THEN <<>> ELSE existing_map(records)
        loop == ReconcileLoop(SortByTimestamp(posts), 1, emap,
                              start_idx(records))
    IN  head \o SelectSeq(loop, IsUpdate) \o SelectSeq(loop, IsAppend)

\* ApplyWrite with an update that rewrites the row from column D on, leaving
\* the Topic cell blank
ApplyWrite_FromTopic(sh, w) ==
    IF w.op = "append_row" THEN Append(sh, w.values)
    ELSE [sh EXCEPT ![w.row] = w.values @@ [Topic |-> ""] @@ @]

\* the effect of one write on the worksheet
ApplyWrite(sh, w) ==
    IF w.op = "append_row" THEN Append(sh, w.values)
    ELSE [sh EXCEPT ![w.row] = w.values @@ @]

\* the worksheet after the first k of the writes ws
RECURSIVE ApplyWrites(_, _, _)
ApplyWrites(sh, ws, k) ==
    IF k = 0 THEN sh
    ELSE ApplyWrite(ApplyWrites(sh, ws, k - 1), ws[k])

\* the worksheet after a complete run of update_sheet
UpdateSheetResult(posts, sh) ==
    LET ws == UpdateSheetWrites(posts, sh) IN ApplyWrites(sh, ws, Len(ws))

----------------------------------------------------------------------------
(* The state machine: runs of main() against one worksheet.  Only the       *)
(* worksheet outlives a run; stats and last belong to the run in progress.  *)

NoCall == [before |-> <<>>, writes |-> <<>>, applied |-> 0,
           retried |-> FALSE, orig |-> <<>>]

Init ==
    /\ sheet = <<>>
    /\ stats = <<>>
    /\ pc = "fetch"
    /\ last = NoCall

\* main: the posts are fetched and enriched by refine_posts_stats; every
\* insights request may be answered by any of the response bodies
RefinePostsStats ==
    /\ pc = "fetch"
    /\ \E n \in 0..MaxPosts :
         \E posts \in [1..n -> RawPosts], responses \in [1..n -> InsightsData] :
            stats' = refine_posts_stats(posts, responses)
    /\ pc' = "update"
    /\ UNCHANGED <<sheet, last>>

\* update_sheet runs to its end
UpdateSheet ==
    /\ pc = "update"
    /\ Len(UpdateSheetResult(stats, sheet)) <= MaxSheetRows
    /\ sheet' = UpdateSheetResult(stats, sheet)
    /\ last' = [NoCall EXCEPT !.before = sheet,
                              !.writes = UpdateSheetWrites(stats, sheet),
                              !.applied = Len(UpdateSheetWrites(stats, sheet)),
                              !.orig = sheet]
    /\ pc' = "done"
    /\ UNCHANGED stats

\* the process ends; nothing but the worksheet is kept
Exit ==
    /\ pc \in {"done", "failed"}
    /\ pc' = "fetch"
    /\ stats' = <<>>
    /\ last' = NoCall
    /\ UNCHANGED sheet

\* the user classifies a data row: the Topic cell is theirs to edit
EditTopic ==
    /\ pc = "fetch"
    /\ \E r \in 2..Len(sheet) :
         /\ sheet[r].Topic = ""
         /\ sheet' = [sheet EXCEPT ![r].Topic = "news"]
    /\ UNCHANGED <<stats, pc, last>>

Next == RefinePostsStats \/ UpdateSheet \/ Exit \/ EditTopic

Spec == Init /\ [][Next]_vars

\* update_sheet raises after k of its writes were applied (a write, or the
\* formatting request after the last write, fails); nothing is rolled back
UpdateSheetAborts ==
    /\ pc = "update"
    /\ LET ws == UpdateSheetWrites(stats, sheet)
       IN  \E k \in 0..Len(ws) :
             /\ Len(ApplyWrites(sheet, ws, k)) <= MaxSheetRows
             /\ sheet' = ApplyWrites(sheet, ws, k)
             /\ last' = [NoCall EXCEPT !.before = sheet, !.writes = ws,
                                       !.applied = k, !.orig = sheet]
    /\ pc' = "failed"
    /\ UNCHANGED stats

\* the failed run is run again: the same posts are fetched and enriched, and
\* update_sheet runs to its end on the worksheet the failed run left
Rerun ==
    /\ pc = "failed"
    /\ Len(UpdateSheetResult(stats, sheet)) <= MaxSheetRows
    /\ sheet' = UpdateSheetResult(stats, sheet)
    /\ last' = [NoCall EXCEPT !.before = sheet,
                              !.writes = UpdateSheetWrites(stats, sheet),
                              !.applied = Len(UpdateSheetWrites(stats, sheet)),
                              !.retried = TRUE,
                              !.orig = last.orig]
    /\ pc' = "done"
    /\ UNCHANGED stats

NextAbort == Next \/ UpdateSheetAborts \/ Rerun

SpecAbort == Init /\ [][NextAbort]_vars

----------------------------------------------------------------------------
(* Vocabulary of the properties *)

PermalinkOf(post) == Get(post, "permalink", "")

\* the positions of the data rows of sh that hold the permalink p
RowsWith(sh, p) == {r \in 2..Len(sh) : sh[r].Permalink = p}

\* the indices of the writes ws that satisfy Test
Which(ws, Test(_)) == {i \in 1..Len(ws) : Test(ws[i])}

\* the post a write of the last run was made for
PostOf(w) == SortByTimestamp(stats)[w.post]

\* the enricher attached no metric value to the post
NoMetrics(post) ==
    \A i \in 1..Len(metrics) : metrics[i] \notin DOMAIN post

\* the rows the last run appended, in the order it wrote them
Appended == SelectSeq(last.writes, IsAppend)

----------------------------------------------------------------------------
(* Claims *)

\* C1: after any sequence of runs from an empty sheet, no two data rows hold
\* the same permalink (rows without a permalink are not compared).
C1_UniquePermalink ==
    \A r1, r2 \in 2..Len(sheet) :
        (r1 # r2 /\ sheet[r1].Permalink # "")
            => sheet[r1].Permalink # sheet[r2].Permalink

\* C2: idempotence: when a run has completed, a second run with the same
\* posts on the sheet it produced writes no header and appends no row, each of
\* its updates writes the values the row already holds, and the sheet stays as
\* it is.
C2_Idempotent ==
    pc = "done" =>
        LET again == UpdateSheetWrites(stats, sheet)
        IN  /\ \A i \in 1..Len(again) :
                 /\ IsUpdate(again[i])
                 /\ \A c \in MetricCols :
                       again[i].values[c] = sheet[again[i].row][c]
            /\ UpdateSheetResult(stats, sheet) = sheet

\* C3: a run leaves every row that existed before it at its position, with
\* its Idx, Date, Text, Topic and Permalink cells as they were; a row that
\* differs after the run holds the permalink of an input post.
C3_FrameUntouched ==
    pc = "done" =>
        /\ Len(sheet) >= Len(last.before)
        /\ \A r \in 1..Len(last.before) :
             /\ \A c \in FrameCols : sheet[r][c] = last.before[r][c]
             /\ sheet[r] # last.before[r] =>
                   \E i \in 1..Len(stats) :
                       /\ PermalinkOf(stats[i]) # ""
                       /\ PermalinkOf(stats[i]) = last.before[r].Permalink

\* a run that changed the metrics of a row the user had classified, and
\* appended a row as well
C3_Witness ==
    /\ pc = "done"
    /\ Len(sheet) > Len(last.before)
    /\ \E r \in 2..Len(last.before) :
         /\ last.before[r].Topic = "news"
         /\ sheet[r] # last.before[r]

\* C4: after any sequence of runs from an empty sheet, the Idx cells of the
\* data rows read 1, 2, ..., n from top to bottom.
C4_IdxSequence ==
    \A r \in 2..Len(sheet) : sheet[r].Idx = Num(r - 1)

\* C5: the rows a run appends are, in the order written, rows of distinct
\* input posts in ascending order of timestamp, with consecutive increasing
\* Idx, and they stand at the end of the sheet in that order; this holds for
\* every order of the input list.
C5_AppendOrder ==
    pc = "done" =>
        LET n == Len(Appended)
            first == Len(sheet) - n
        IN  /\ Len(last.before) <= first
            /\ \E f \in [1..n -> 1..Len(stats)] :
                 /\ \A i, j \in 1..n : i # j => f[i] # f[j]
                 /\ \A i \in 1..n :
                      /\ Appended[i].values =
                            NewRow(stats[f[i]], Appended[1].values.Idx.n + i - 1)
                      /\ sheet[first + i] = Appended[i].values
                 /\ \A i, j \in 1..n :
                      i < j => stats[f[i]].timestamp <= stats[f[j]].timestamp

\* a run whose input listed a later post before an earlier one, and which
\* appended both
C5_Witness ==
    /\ pc = "done"
    /\ Len(stats) = 2
    /\ stats[1].timestamp > stats[2].timestamp
    /\ Len(Appended) = 2
    /\ Appended[1].values.Date # Appended[2].values.Date

\* C6: every write of a run is made for one input post and every input post
\* gets exactly one write; a post that carries a permalink held by a row of
\* the sheet gets an update, addressed to the position of a row that holds
\* this permalink (the record's index + 2), and no append.
C6_OneUpdateNoAppend ==
    pc = "done" =>
        LET ws == last.writes
            forPosts == Which(ws, LAMBDA w : "post" \in DOMAIN w)
        IN  /\ \A k \in 1..Len(stats) :
                 Cardinality({i \in forPosts : ws[i].post = k}) = 1
            /\ \A i \in forPosts : ws[i].post \in 1..Len(stats)
            /\ \A i \in forPosts :
                 LET p == PermalinkOf(PostOf(ws[i]))
                 IN  (p # "" /\ RowsWith(last.before, p) # {})
                        => /\ IsUpdate(ws[i])
                           /\ ws[i].row \in RowsWith(last.before, p)
                           /\ get_all_records(last.before)[ws[i].row - 2 + 1].Permalink = p
            /\ \A p \in {PermalinkOf(stats[k]) : k \in 1..Len(stats)} \ {""} :
                 RowsWith(last.before, p) # {} =>
                    /\ Cardinality({i \in Which(ws, IsUpdate) :
                                       ws[i].row \in RowsWith(last.before, p)})
                         = Cardinality({k \in 1..Len(stats) :
                                           PermalinkOf(stats[k]) = p})
                    /\ \A i \in Which(ws, IsAppend) : ws[i].values.Permalink # p
                    /\ Cardinality(RowsWith(sheet, p))
                         = Cardinality(RowsWith(last.before, p))

\* a run that updated the row of a known post and appended a new post
C6_Witness ==
    /\ pc = "done"
    /\ Which(last.writes, IsUpdate) # {}
    /\ Which(last.writes, IsAppend) # {}
    /\ \E i \in Which(last.writes, IsUpdate) :
          sheet[last.writes[i].row] # last.before[last.writes[i].row]

\* C7: when a run failed after some of its writes and is then run again to
\* its end with the same posts, the sheet is the one a single complete run
\* from the original sheet would have produced.
C7_RerunSafe ==
    (pc = "done" /\ last.retried) =>
        sheet = UpdateSheetResult(stats, last.orig)

\* C8: a post the enricher attached no metric value to is written, as an
\* update or as an append, with 0 in each of the five metric cells.
C8_DefaultMetrics ==
    pc = "done" =>
        \A i \in Which(last.writes, LAMBDA w : "post" \in DOMAIN w) :
            LET w == last.writes[i]
            IN  NoMetrics(PostOf(w)) =>
                  /\ \A c \in MetricCols : w.values[c] = Num(0)
                  /\ IsAppend(w) =>
                        \E r \in (Len(last.before) + 1)..Len(sheet) :
                            /\ sheet[r].Permalink = PermalinkOf(PostOf(w))
                            /\ \A c \in MetricCols : sheet[r][c] = Num(0)
                  /\ (IsUpdate(w) /\ \A j \in Which(last.writes, IsUpdate) :
                                        last.writes[j].row = w.row => j <= i)
                        => \A c \in MetricCols : sheet[w.row][c] = Num(0)

\* a run that reset the counted metrics of a row to 0 for a post without id,
\* and one that appended a post whose insights response was empty
C8_Witness ==
    /\ pc = "done"
    /\ \E i \in Which(last.writes, IsUpdate) :
         LET w == last.writes[i]
         IN  /\ "id" \notin DOMAIN PostOf(w)
             /\ last.before[w.row].Views = Num(7)
             /\ sheet[w.row].Views = Num(0)
    /\ \E i \in Which(last.writes, IsAppend) :
         /\ "id" \in DOMAIN PostOf(last.writes[i])
         /\ NoMetrics(PostOf(last.writes[i]))

\* C9 as stated: an update goes to the topmost row that holds the post's
\* permalink, and the other rows with that permalink stay as they were.
C9_FirstRowUpdated ==
    pc = "done" =>
        \A i \in Which(last.writes, IsUpdate) :
            LET w == last.writes[i]
                rows == RowsWith(last.before, PermalinkOf(PostOf(w)))
            IN  /\ w.row \in rows
                /\ \A r \in rows : w.row <= r
                /\ \A r \in rows \ {w.row} : sheet[r] = last.before[r]

\* C9 amended: an update goes to the bottommost row that holds the post's
\* permalink, and the other rows with that permalink stay as they were.
C9_LastRowUpdated ==
    pc = "done" =>
        \A i \in Which(last.writes, IsUpdate) :
            LET w == last.writes[i]
                rows == RowsWith(last.before, PermalinkOf(PostOf(w)))
            IN  /\ w.row \in rows
                /\ \A r \in rows : r <= w.row
                /\ \A r \in rows \ {w.row} : sheet[r] = last.before[r]

\* a run that updated a post of which the sheet held two rows
C9_Witness ==
    /\ pc = "done"
    /\ \E i \in Which(last.writes, IsUpdate) :
         LET w == last.writes[i]
         IN  /\ Cardinality(RowsWith(last.before, PermalinkOf(PostOf(w)))) = 2
             /\ sheet[w.row] # last.before[w.row]

\* C10: once written, the header stands at position 1 and nowhere else.
C10_SingleHeader ==
    sheet # <<>> =>
        /\ sheet[1] = header
        /\ \A r \in 2..Len(sheet) : sheet[r] # header

====
